---- MODULE Spec2Model ----
(***************************************************************************)
(* Model of the volleyball court renderer:                                 *)
(*   src/sports/configs/volleyball.py     VolleyballCourtConfiguration     *)
(*   src/sports/annotators/volleyball.py  draw_volleyball_court            *)
(*                                                                         *)
(* Numbers.  width, length and attack_line_distance are integers; length/2 *)
(* is Python true division, so a coordinate is a rational, written here as *)
(* <<numerator, denominator>>.  scale is a rational <<numerator,           *)
(* denominator>> too.  int(v) truncates toward zero.  Binary floating      *)
(* point rounding of the products is not modelled: the products are exact. *)
(*                                                                         *)
(* Images.  An image is indexed as in numpy, img[row][column], rows and    *)
(* columns counted from 0, each pixel a BGR triple; its numpy shape        *)
(* <<rows, columns, channels>> is kept beside it.                          *)
(* cv2.fillPoly and cv2.line are library calls; they are modelled by their *)
(* documented raster behaviour on the shapes this program hands them: a    *)
(* polygon is filled boundary included, a line of thickness 1 is the       *)
(* pixels of the segment, a thicker line is the segment widened by half    *)
(* the thickness with round ends, and everything is clipped to the image   *)
(* (an image with no rows or no columns is left as it is).  The default    *)
(* edges join vertices that share x or y, so every line is axis-parallel.  *)
(***************************************************************************)
EXTENDS Integers, Sequences, FiniteSets

VARIABLES
    config,            \* the VolleyballCourtConfiguration passed in
    padding,           \* argument padding
    line_thickness,    \* argument line_thickness
    scale,             \* argument scale, <<numerator, denominator>>
    pc,                \* the statement draw_volleyball_court runs next
    shape,             \* court_image.shape
    court_image,       \* the pixels of court_image
    court_boundaries,  \* the list built at lines 49-53
    k,                 \* number of edges of config.edges already drawn
    calls,             \* the raster calls made so far, in order
    result,            \* the image draw_volleyball_court returned
    caller,            \* the function that was called from outside
    xy,                \* draw_points_on_court: the points to mark
    court,             \* draw_points_on_court: the image being annotated
    marked,            \* draw_points_on_court: number of points marked
    annotated          \* draw_points_on_court: the returned image

args == <<config, padding, line_thickness, scale, caller, xy>>

pointVars == <<court, marked, annotated>>

vars == <<config, padding, line_thickness, scale, pc, shape, court_image,
          court_boundaries, k, calls, result, caller, xy, court, marked, annotated>>

(* ------------------------------ bounds -------------------------------- *)

MaxWidth == 3
MaxLength == 3
MaxAttack == 2
MaxScaleNum == 2
MaxPadding == 2
MaxThickness == 3
MaxPoints == 1

(* --------------------------- arithmetic ------------------------------- *)

Min(a, b) == IF a <= b THEN a ELSE b

Max(a, b) == IF a >= b THEN a ELSE b

\* Python int(n/d) for d > 0: truncation toward zero.
Trunc(n, d) == IF n >= 0 THEN n \div d ELSE -((-n) \div d)

\* int(v * scale) for a rational v = <<n, d>> and scale = <<sn, sd>>.
IntScaled(v, sc) == Trunc(v[1] * sc[1], v[2] * sc[2])

(* --------------------- VolleyballCourtConfiguration ------------------- *)

DefaultWidth == 900
DefaultLength == 1800
DefaultAttackLineDistance == 300

DefaultConfig ==
    [width |-> DefaultWidth, length |-> DefaultLength,
     attack_line_distance |-> DefaultAttackLineDistance]

\* The backup vertex order kept in comments at lines 61-73.
verticesBackup(cfg) ==
    << <<<<0, 1>>, <<0, 1>>>>,
       <<<<0, 1>>, <<cfg.width, 1>>>>,
       <<<<cfg.length, 1>>, <<cfg.width, 1>>>>,
       <<<<cfg.length, 1>>, <<0, 1>>>>,
       <<<<cfg.length, 2>>, <<0, 1>>>>,
       <<<<cfg.length, 2>>, <<cfg.width, 1>>>>,
       <<<<cfg.length - 2 * cfg.attack_line_distance, 2>>, <<0, 1>>>>,
       <<<<cfg.length - 2 * cfg.attack_line_distance, 2>>, <<cfg.width, 1>>>>,
       <<<<cfg.length + 2 * cfg.attack_line_distance, 2>>, <<0, 1>>>>,
       <<<<cfg.length + 2 * cfg.attack_line_distance, 2>>, <<cfg.width, 1>>>> >>
\* The property vertices: ten (x, y) pairs, each coordinate a rational.
vertices(cfg) ==
    << <<<<0, 1>>, <<cfg.width, 1>>>>,
       <<<<0, 1>>, <<0, 1>>>>,
       <<<<cfg.length - 2 * cfg.attack_line_distance, 2>>, <<0, 1>>>>,
       <<<<cfg.length - 2 * cfg.attack_line_distance, 2>>, <<cfg.width, 1>>>>,
       <<<<cfg.length, 2>>, <<cfg.width, 1>>>>,
       <<<<cfg.length, 2>>, <<0, 1>>>>,
       <<<<cfg.length + 2 * cfg.attack_line_distance, 2>>, <<0, 1>>>>,
       <<<<cfg.length + 2 * cfg.attack_line_distance, 2>>, <<cfg.width, 1>>>>,
       <<<<cfg.length, 1>>, <<cfg.width, 1>>>>,
       <<<<cfg.length, 1>>, <<0, 1>>>> >>

edgesZeroBased ==
    << <<0, 1>>, <<1, 9>>, <<9, 8>>, <<8, 0>>, <<4, 5>>, <<2, 3>>, <<6, 7>> >>
\* The default of the field edges: 1-based vertex index pairs.
edges ==
    << <<1, 2>>, <<2, 10>>, <<10, 9>>, <<9, 1>>, <<5, 6>>, <<3, 4>>, <<7, 8>> >>

boundary_vertices_indicesCrossed == <<1, 2, 9, 10>>
\* The default of the field boundary_vertices_indices.
boundary_vertices_indices == <<1, 2, 10, 9>>

(* ------------------------------ colours ------------------------------- *)

\* sv.Color(r, g, b).as_bgr()
as_bgr(c) == <<c[3], c[2], c[1]>>

inside_color == <<245, 161, 66>>
outside_color == <<66, 161, 245>>
line_color == <<255, 255, 255>>

(* ------------------------- raster primitives -------------------------- *)

ImageShapeSwapped(cfg, sc, pad) ==
    << IntScaled(<<cfg.length, 1>>, sc) + 2 * pad,
       IntScaled(<<cfg.width, 1>>, sc) + 2 * pad, 3 >>
ImageShapeSinglePadding(cfg, sc, pad) ==
    << IntScaled(<<cfg.width, 1>>, sc) + pad,
       IntScaled(<<cfg.length, 1>>, sc) + pad, 3 >>
\* (scaled_width + 2 * padding, scaled_length + 2 * padding, 3)
ImageShape(cfg, sc, pad) ==
    << IntScaled(<<cfg.width, 1>>, sc) + 2 * pad,
       IntScaled(<<cfg.length, 1>>, sc) + 2 * pad, 3 >>

BackgroundOnes(shp, color) ==
    [y \in 0 .. shp[1] - 1 |-> [x \in 0 .. shp[2] - 1 |-> <<1, 1, 1>>]]
\* np.ones(shape, uint8) * np.array(color, uint8)
Background(shp, color) ==
    [y \in 0 .. shp[1] - 1 |-> [x \in 0 .. shp[2] - 1 |-> color]]

ScaledPointNoPadding(v, sc, pad) == <<IntScaled(v[1], sc), IntScaled(v[2], sc)>>
ScaledPointTransposed(v, sc, pad) ==
    <<IntScaled(v[2], sc) + pad, IntScaled(v[1], sc) + pad>>
\* (int(x * scale) + padding, int(y * scale) + padding)
ScaledPoint(v, sc, pad) ==
    <<IntScaled(v[1], sc) + pad, IntScaled(v[2], sc) + pad>>

\* The point (x, y) lies on the closed segment from a to b.
OnSegment(a, b, x, y) ==
    /\ (b[1] - a[1]) * (y - a[2]) = (b[2] - a[2]) * (x - a[1])
    /\ Min(a[1], b[1]) <= x /\ x <= Max(a[1], b[1])
    /\ Min(a[2], b[2]) <= y /\ y <= Max(a[2], b[2])

\* The ray from (x, y) toward +x crosses the polygon side from a to b.
Crosses(a, b, x, y) ==
    /\ (a[2] > y) # (b[2] > y)
    /\ IF b[2] > a[2]
       THEN (x - a[1]) * (b[2] - a[2]) < (y - a[2]) * (b[1] - a[1])
       ELSE (x - a[1]) * (b[2] - a[2]) > (y - a[2]) * (b[1] - a[1])

Succ(pts, i) == pts[(i % Len(pts)) + 1]

\* cv2.fillPoly's region: the polygon's sides and, by the even-odd rule,
\* its interior.
InPolygon(pts, x, y) ==
    \/ \E i \in 1 .. Len(pts) : OnSegment(pts[i], Succ(pts, i), x, y)
    \/ Cardinality({i \in 1 .. Len(pts) : Crosses(pts[i], Succ(pts, i), x, y)}) % 2 = 1

\* cv2.fillPoly(img, pts=[pts], color=color), clipped to the image.
FillPoly(img, pts, color) ==
    [y \in DOMAIN img |->
        [x \in DOMAIN img[y] |-> IF InPolygon(pts, x, y) THEN color ELSE img[y][x]]]

\* Half the width cv2.line adds on each side of a segment.
HalfThickness(t) == IF t <= 1 THEN 0 ELSE t \div 2

\* The pixels cv2.line colours for an axis-parallel segment p1-p2.
LineCovers(p1, p2, t, x, y) ==
    LET h == HalfThickness(t)
        hx == IF p1[1] = p2[1] THEN h ELSE 0
        hy == IF p1[2] = p2[2] THEN h ELSE 0
        Band == /\ p1 # p2
                /\ Min(p1[1], p2[1]) - hx <= x /\ x <= Max(p1[1], p2[1]) + hx
                /\ Min(p1[2], p2[2]) - hy <= y /\ y <= Max(p1[2], p2[2]) + hy
        Cap(c) == (x - c[1]) * (x - c[1]) + (y - c[2]) * (y - c[2]) <= h * h
    IN  IF h = 0 THEN OnSegment(p1, p2, x, y)
        ELSE Band \/ Cap(p1) \/ Cap(p2)

\* cv2.line(img, pt1, pt2, color, thickness), clipped to the image.
Line(img, p1, p2, color, t) ==
    [y \in DOMAIN img |->
        [x \in DOMAIN img[y] |-> IF LineCovers(p1, p2, t, x, y) THEN color ELSE img[y][x]]]

(* ------------------------ draw_volleyball_court ----------------------- *)

\* The list court_boundaries after the loop at lines 50-53.
CourtBoundaries(cfg, sc, pad) ==
    [i \in 1 .. Len(boundary_vertices_indices) |->
        ScaledPoint(vertices(cfg)[boundary_vertices_indices[i]], sc, pad)]

\* point1 and point2 of the e-th edge, lines 58-61.
EdgePoints(cfg, sc, pad, e) ==
    << ScaledPoint(vertices(cfg)[edges[e][1]], sc, pad),
       ScaledPoint(vertices(cfg)[edges[e][2]], sc, pad) >>

FollowingStepFillLast(s) ==
    CASE s = "background" -> "edges"
      [] s = "edges" -> "fill"
      [] s = "fill" -> "return"
      [] OTHER -> "done"
\* The order of the statements of the function body.
FollowingStep(s) ==
    CASE s = "background" -> "fill"
      [] s = "fill" -> "edges"
      [] s = "edges" -> "return"
      [] OTHER -> "done"

NoImage == [shape |-> <<0, 0, 0>>, pixels |-> <<>>]

SmallConfigs ==
    [width : 0 .. MaxWidth, length : 0 .. MaxLength,
     attack_line_distance : 0 .. MaxAttack]

ScaleDens == {1, 2}

Scales == (0 .. MaxScaleNum) \X ScaleDens

DefaultPadding == 20

DefaultScale == <<1, 10>>

\* The arguments of one call.
Arguments ==
    [config : SmallConfigs, padding : 0 .. MaxPadding,
     line_thickness : 1 .. MaxThickness, scale : Scales]
    \cup
    [config : {DefaultConfig}, padding : {DefaultPadding},
     line_thickness : 1 .. MaxThickness, scale : {DefaultScale}]

Init ==
    /\ \E a \in Arguments :
          /\ config = a.config
          /\ padding = a.padding
          /\ line_thickness = a.line_thickness
          /\ scale = a.scale
    /\ pc = "background"
    /\ shape = <<0, 0, 0>>
    /\ court_image = <<>>
    /\ court_boundaries = <<>>
    /\ k = 0
    /\ calls = <<>>
    /\ result = NoImage
    /\ caller = "draw_volleyball_court"
    /\ xy = <<>>
    /\ court = NoImage
    /\ marked = 0
    /\ annotated = NoImage

\* Lines 40-46: the image is allocated and set to outside_color.
MakeBackground ==
    /\ pc = "background"
    /\ shape' = ImageShape(config, scale, padding)
    /\ court_image' = Background(ImageShape(config, scale, padding), as_bgr(outside_color))
    /\ calls' = Append(calls, [op |-> "ones"])
    /\ pc' = FollowingStep("background")
    /\ UNCHANGED <<args, pointVars, court_boundaries, k, result>>

\* Lines 49-55: the boundary polygon is built and filled with inside_color.
FillCourt ==
    /\ pc = "fill"
    /\ court_boundaries' = CourtBoundaries(config, scale, padding)
    /\ court_image' = FillPoly(court_image, CourtBoundaries(config, scale, padding),
                               as_bgr(inside_color))
    /\ calls' = Append(calls, [op |-> "fillPoly",
                               pts |-> CourtBoundaries(config, scale, padding)])
    /\ pc' = FollowingStep("fill")
    /\ UNCHANGED <<args, pointVars, shape, k, result>>

\* Lines 57-68: one iteration of the loop over config.edges.
DrawEdge ==
    /\ pc = "edges"
    /\ k < Len(edges)
    /\ LET pts == EdgePoints(config, scale, padding, k + 1)
       IN  /\ court_image' = Line(court_image, pts[1], pts[2],
                                  as_bgr(line_color), line_thickness)
           /\ calls' = Append(calls, [op |-> "line", pt1 |-> pts[1], pt2 |-> pts[2]])
    /\ k' = k + 1
    /\ pc' = IF k + 1 = Len(edges) THEN FollowingStep("edges") ELSE pc
    /\ UNCHANGED <<args, pointVars, shape, court_boundaries, result>>

\* Line 70: return court_image.
Return ==
    /\ pc = "return"
    /\ result' = [shape |-> shape, pixels |-> court_image]
    /\ pc' = FollowingStep("return")
    /\ UNCHANGED <<args, pointVars, shape, court_image, court_boundaries, k, calls>>

Next == MakeBackground \/ FillCourt \/ DrawEdge \/ Return

Spec == Init /\ [][Next]_vars

(* ------------------------- draw_points_on_court ----------------------- *)

face_color == <<255, 0, 0>>
edge_color == <<0, 0, 0>>

DefaultRadius == 10
DefaultMarkerThickness == 2

\* cv2.circle(img, center, radius, color, thickness): a filled disk when
\* thickness is negative, else a ring of that thickness.
Circle(img, c, r, color, t) ==
    [y \in DOMAIN img |->
        [x \in DOMAIN img[y] |->
            LET d2 == (x - c[1]) * (x - c[1]) + (y - c[2]) * (y - c[2])
                inner == IF 2 * r > t THEN 2 * r - t ELSE 0
            IN  IF \/ t < 0 /\ d2 <= r * r
                   \/ t >= 0 /\ inner * inner <= 4 * d2
                             /\ 4 * d2 <= (2 * r + t) * (2 * r + t)
                THEN color ELSE img[y][x]]]

\* One marker: the disk in face_color, then the ring in edge_color over it.
Marker(img, point, sc, pad) ==
    LET c == ScaledPoint(<<<<point[1], 1>>, <<point[2], 1>>>>, sc, pad)
    IN  Circle(Circle(img, c, DefaultRadius, as_bgr(face_color), -1),
               c, DefaultRadius, as_bgr(edge_color), DefaultMarkerThickness)

RECURSIVE DrawEdges(_, _, _, _, _, _)
\* The image after the first e edges are drawn on img.
DrawEdges(img, cfg, sc, pad, t, e) ==
    IF e = 0 THEN img
    ELSE LET pts == EdgePoints(cfg, sc, pad, e)
         IN  Line(DrawEdges(img, cfg, sc, pad, t, e - 1), pts[1], pts[2],
                  as_bgr(line_color), t)

\* draw_volleyball_court as a function of its arguments.
DrawCourt(cfg, sc, pad, t) ==
    [shape |-> ImageShape(cfg, sc, pad),
     pixels |-> DrawEdges(FillPoly(Background(ImageShape(cfg, sc, pad),
                                              as_bgr(outside_color)),
                                   CourtBoundaries(cfg, sc, pad),
                                   as_bgr(inside_color)),
                          cfg, sc, pad, t, Len(edges))]

PointsReturnValueInsideLoop(img, pts) == IF Len(pts) = 0 THEN NoImage ELSE img
\* What draw_points_on_court returns: the annotated image.
PointsReturnValue(img, pts) == img

\* The points a caller may pass: corners of the court, in physical units.
PointChoices(cfg) == {<<0, 0>>, <<cfg.length, cfg.width>>}

PointSeqs(cfg) == UNION {[1 .. m -> PointChoices(cfg)] : m \in 0 .. MaxPoints}

\* draw_points_on_court is called: with no court image, or with one drawn
\* before by draw_volleyball_court with a thicker line.
InitPoints ==
    /\ \E a \in [config : SmallConfigs, padding : 0 .. MaxPadding, scale : Scales] :
          /\ config = a.config
          /\ padding = a.padding
          /\ scale = a.scale
          /\ xy \in PointSeqs(a.config)
          /\ court \in {NoImage, DrawCourt(a.config, a.scale, a.padding, 2)}
    /\ line_thickness = 1
    /\ pc = "points_entry"
    /\ shape = <<0, 0, 0>>
    /\ court_image = <<>>
    /\ court_boundaries = <<>>
    /\ k = 0
    /\ calls = <<>>
    /\ result = NoImage
    /\ caller = "draw_points_on_court"
    /\ marked = 0
    /\ annotated = NoImage

\* if court is None: court = draw_court(config, padding=padding, scale=scale)
PointsEntry ==
    /\ pc = "points_entry"
    /\ pc' = IF court = NoImage THEN "background" ELSE "points"
    /\ UNCHANGED <<args, pointVars, shape, court_image, court_boundaries, k,
                   calls, result>>

\* The court image comes back from draw_volleyball_court.
PointsReceiveCourt ==
    /\ pc = "done"
    /\ caller = "draw_points_on_court"
    /\ court' = result
    /\ pc' = "points"
    /\ UNCHANGED <<args, marked, annotated, shape, court_image, court_boundaries, k,
                   calls, result>>

\* One iteration of the loop over the points.
DrawPoint ==
    /\ pc = "points"
    /\ marked < Len(xy)
    /\ court' = [court EXCEPT !.pixels = Marker(court.pixels, xy[marked + 1], scale, padding)]
    /\ calls' = Append(calls, [op |-> "circle", center |-> xy[marked + 1]])
    /\ marked' = marked + 1
    /\ UNCHANGED <<args, pc, annotated, shape, court_image, court_boundaries, k, result>>

\* return court
PointsReturn ==
    /\ pc = "points"
    /\ marked = Len(xy)
    /\ annotated' = PointsReturnValue(court, xy)
    /\ pc' = "points_done"
    /\ UNCHANGED <<args, court, marked, shape, court_image, court_boundaries, k,
                   calls, result>>

NextPoints == Next \/ PointsEntry \/ PointsReceiveCourt \/ DrawPoint \/ PointsReturn

SpecPoints == InitPoints /\ [][NextPoints]_vars

(* ====================================================================== *)
(* Properties                                                             *)
(* ====================================================================== *)

Done == pc = "done"

\* floor(n / d) for d > 0.
Floor(n, d) == n \div d

\* Equality of two rationals.
RatEq(a, b) == a[1] * b[2] = b[1] * a[2]

PointEq(v, w) == RatEq(v[1], w[1]) /\ RatEq(v[2], w[2])

IsDefaultScenario ==
    /\ config.width = 900 /\ config.length = 1800
    /\ config.attack_line_distance = 300
    /\ scale = <<1, 10>> /\ padding = 20

Rows == shape[1]

Cols == shape[2]

\* The calls of cv2.line so far, in order.
LineCalls == SelectSeq(calls, LAMBDA c : c.op = "line")

\* The pixel (x, y) is covered by the line drawn for the e-th edge.
EdgeCovers(e, x, y) ==
    LET pts == EdgePoints(config, scale, padding, e)
    IN  LineCovers(pts[1], pts[2], line_thickness, x, y)

OnSomeLine(x, y) == \E e \in 1 .. Len(edges) : EdgeCovers(e, x, y)

\* The scaled and padded boundary polygon is the rectangle with these sides.
PolyLeft == padding

PolyRight == Floor(config.length * scale[1], scale[2]) + padding

PolyTop == padding

PolyBottom == Floor(config.width * scale[1], scale[2]) + padding

StrictlyInside(x, y) ==
    PolyLeft < x /\ x < PolyRight /\ PolyTop < y /\ y < PolyBottom

StrictlyOutside(x, y) ==
    x < PolyLeft \/ x > PolyRight \/ y < PolyTop \/ y > PolyBottom

\* C1: the returned image has floor(width*scale) + 2*padding rows,
\* floor(length*scale) + 2*padding columns and 3 channels.
C1_Shape ==
    Done =>
       /\ result.shape = << Floor(config.width * scale[1], scale[2]) + 2 * padding,
                            Floor(config.length * scale[1], scale[2]) + 2 * padding,
                            3 >>
       /\ DOMAIN result.pixels = 0 .. result.shape[1] - 1
       /\ \A y \in DOMAIN result.pixels :
             /\ DOMAIN result.pixels[y] = 0 .. result.shape[2] - 1
             /\ \A x \in DOMAIN result.pixels[y] :
                   Len(result.pixels[y][x]) = result.shape[3]

C1_Witness ==
    /\ Done
    /\ config.width > 0 /\ padding > 0
    /\ (config.width * scale[1]) % scale[2] # 0
    /\ result.shape[1] # result.shape[2]
    /\ result.shape[1] > 2 * padding

\* C2 as stated: the default scenario returns an image of shape (110, 220, 3).
C2_Original == (Done /\ IsDefaultScenario) => result.shape = <<110, 220, 3>>

\* C2 amended: the default configuration drawn with scale 0.1 and padding 20
\* returns an image of shape (90+40, 180+40, 3) = (130, 220, 3).
C2_Amended == (Done /\ IsDefaultScenario) => result.shape = <<130, 220, 3>>

C2_Witness == Done /\ IsDefaultScenario /\ line_thickness = 1

\* C3 as stated: in the default scenario the net edge (5, 6) is drawn at
\* x = 110 with endpoints at y = 20 and y = 90.
C3_Original ==
    (Done /\ IsDefaultScenario) =>
       /\ LineCalls[5].pt1[1] = 110 /\ LineCalls[5].pt2[1] = 110
       /\ {LineCalls[5].pt1[2], LineCalls[5].pt2[2]} = {20, 90}

\* C3 amended: in the default scenario the net edge (5, 6) is drawn as a
\* vertical segment at x = 110 with endpoints at y = 20 and y = 110, and
\* every pixel of that span has line_color in the returned image.
C3_Amended ==
    (Done /\ IsDefaultScenario) =>
       /\ edges[5] = <<5, 6>>
       /\ LineCalls[5].pt1[1] = 110 /\ LineCalls[5].pt2[1] = 110
       /\ {LineCalls[5].pt1[2], LineCalls[5].pt2[2]} = {20, 110}
       /\ \A y \in 20 .. 110 : result.pixels[y][110] = as_bgr(line_color)

C3_Witness ==
    /\ Done /\ IsDefaultScenario
    /\ Len(LineCalls) = 7
    /\ result.pixels[90][110] = as_bgr(line_color)
    /\ result.pixels[90][109] = as_bgr(inside_color)

\* C4 as stated: every pixel strictly outside the boundary polygon has
\* outside_color, and every pixel strictly inside has inside_color unless a
\* court line was drawn over it.
C4_Original ==
    Done =>
       \A y \in DOMAIN result.pixels : \A x \in DOMAIN result.pixels[y] :
          /\ StrictlyOutside(x, y) => result.pixels[y][x] = as_bgr(outside_color)
          /\ StrictlyInside(x, y) =>
                \/ result.pixels[y][x] = as_bgr(inside_color)
                \/ OnSomeLine(x, y)

\* C4 amended: every pixel strictly outside the boundary polygon has
\* outside_color and every pixel strictly inside has inside_color, in both
\* cases except where a court line was drawn over it (a line thicker than
\* one pixel, or an attack line beyond the court, covers outside pixels).
C4_Amended ==
    Done =>
       \A y \in DOMAIN result.pixels : \A x \in DOMAIN result.pixels[y] :
          /\ StrictlyOutside(x, y) =>
                \/ result.pixels[y][x] = as_bgr(outside_color)
                \/ OnSomeLine(x, y)
          /\ StrictlyInside(x, y) =>
                \/ result.pixels[y][x] = as_bgr(inside_color)
                \/ OnSomeLine(x, y)

C4_Witness ==
    /\ Done
    /\ line_thickness >= 2 /\ padding >= 1
    /\ 2 * config.attack_line_distance <= config.length
    /\ \E y \in DOMAIN result.pixels : \E x \in DOMAIN result.pixels[y] :
          StrictlyOutside(x, y) /\ result.pixels[y][x] = as_bgr(line_color)
    /\ \E y \in DOMAIN result.pixels : \E x \in DOMAIN result.pixels[y] :
          StrictlyOutside(x, y) /\ result.pixels[y][x] = as_bgr(outside_color)
    /\ \E y \in DOMAIN result.pixels : \E x \in DOMAIN result.pixels[y] :
          StrictlyInside(x, y) /\ result.pixels[y][x] = as_bgr(inside_color)

\* C5: vertices has exactly 10 entries, and every index in edges and in
\* boundary_vertices_indices is a valid 1-based index into it, so the
\* lookups vertices[i-1] of the renderer stay in range.
C5_IndicesValid ==
    /\ Len(vertices(config)) = 10
    /\ \A e \in 1 .. Len(edges) :
          /\ edges[e][1] \in 1 .. Len(vertices(config))
          /\ edges[e][2] \in 1 .. Len(vertices(config))
    /\ \A i \in 1 .. Len(boundary_vertices_indices) :
          boundary_vertices_indices[i] \in 1 .. Len(vertices(config))
    /\ \A i \in 1 .. Len(court_boundaries) :
          court_boundaries[i] =
             ScaledPoint(vertices(config)[boundary_vertices_indices[i]], scale, padding)
    /\ \A e \in 1 .. Len(LineCalls) :
          /\ LineCalls[e].pt1 = ScaledPoint(vertices(config)[edges[e][1]], scale, padding)
          /\ LineCalls[e].pt2 = ScaledPoint(vertices(config)[edges[e][2]], scale, padding)

C5_Witness ==
    /\ Done
    /\ Len(court_boundaries) = 4 /\ Len(LineCalls) = 7
    /\ config.width > 0 /\ config.length > 0 /\ config.attack_line_distance > 0
    /\ ~IsDefaultScenario

\* The x coordinates of the attack lines and the net, as rationals.
LeftAttackX == <<config.length - 2 * config.attack_line_distance, 2>>

NetX == <<config.length, 2>>

RightAttackX == <<config.length + 2 * config.attack_line_distance, 2>>

SameVertices(vs, ws) ==
    /\ Len(vs) = Len(ws)
    /\ \A i \in 1 .. Len(vs) : PointEq(vs[i], ws[i])

\* C6 as stated: the vertices are, in order, left edge top then bottom, left
\* attack line top then bottom, net top then bottom, right attack line top
\* then bottom, right edge top then bottom (top is y = width, bottom y = 0).
C6_Original ==
    SameVertices(vertices(config),
       << <<<<0, 1>>, <<config.width, 1>>>>, <<<<0, 1>>, <<0, 1>>>>,
          <<LeftAttackX, <<config.width, 1>>>>, <<LeftAttackX, <<0, 1>>>>,
          <<NetX, <<config.width, 1>>>>, <<NetX, <<0, 1>>>>,
          <<RightAttackX, <<config.width, 1>>>>, <<RightAttackX, <<0, 1>>>>,
          <<<<config.length, 1>>, <<config.width, 1>>>>,
          <<<<config.length, 1>>, <<0, 1>>>> >>)

\* C6 amended: the vertices are, in order, left edge top then bottom, left
\* attack line bottom then top, net top then bottom, right attack line
\* bottom then top, right edge top then bottom (top is y = width, bottom
\* y = 0; net at x = length/2, attack lines at length/2 -/+
\* attack_line_distance).
C6_Amended ==
    SameVertices(vertices(config),
       << <<<<0, 1>>, <<config.width, 1>>>>, <<<<0, 1>>, <<0, 1>>>>,
          <<LeftAttackX, <<0, 1>>>>, <<LeftAttackX, <<config.width, 1>>>>,
          <<NetX, <<config.width, 1>>>>, <<NetX, <<0, 1>>>>,
          <<RightAttackX, <<0, 1>>>>, <<RightAttackX, <<config.width, 1>>>>,
          <<<<config.length, 1>>, <<config.width, 1>>>>,
          <<<<config.length, 1>>, <<0, 1>>>> >>)

C6_Witness ==
    /\ Done
    /\ config.width > 0 /\ config.length % 2 = 1
    /\ config.attack_line_distance > 0
    /\ LineCalls[6].pt1[2] = padding
    /\ LineCalls[6].pt2[2] = PolyBottom
    /\ PolyBottom > padding

\* C8: the image is first set to outside_color, then the polygon is filled,
\* then the edges are drawn; nothing but a line is drawn once a line has
\* been drawn, so in the returned image every in-bounds pixel covered by an
\* edge's line has line_color.
C8_EdgesLast ==
    /\ \A i \in 1 .. Len(calls) :
          /\ (i = 1) <=> (calls[i].op = "ones")
          /\ (i = 2) <=> (calls[i].op = "fillPoly")
          /\ (i > 2) <=> (calls[i].op = "line")
    /\ Done =>
          /\ Len(calls) = 2 + Len(edges)
          /\ \A y \in DOMAIN result.pixels : \A x \in DOMAIN result.pixels[y] :
                OnSomeLine(x, y) => result.pixels[y][x] = as_bgr(line_color)

C8_Witness ==
    /\ Done
    /\ \E y \in DOMAIN result.pixels : \E x \in DOMAIN result.pixels[y] :
          /\ InPolygon(court_boundaries, x, y)
          /\ EdgeCovers(5, x, y)
          /\ result.pixels[y][x] = as_bgr(line_color)
    /\ \E y \in DOMAIN result.pixels : \E x \in DOMAIN result.pixels[y] :
          result.pixels[y][x] = as_bgr(inside_color)

\* The points handed to cv2.fillPoly and cv2.line so far.
PointsUsed ==
    UNION { IF calls[i].op = "fillPoly"
            THEN {calls[i].pts[j] : j \in 1 .. Len(calls[i].pts)}
            ELSE IF calls[i].op = "line" THEN {calls[i].pt1, calls[i].pt2}
            ELSE {} : i \in 1 .. Len(calls) }

\* C9: with 0 <= attack_line_distance <= length/2 and padding >= 1 every
\* scaled and padded vertex used as polygon corner or edge endpoint lies
\* inside the image; with padding = 0 the vertices at x = length or
\* y = width fall one pixel past the last column or row.
C9_VerticesInImage ==
    (pc # "background" /\ 2 * config.attack_line_distance <= config.length) =>
       /\ padding >= 1 =>
             \A p \in PointsUsed :
                /\ padding <= p[1] /\ p[1] < Floor(config.length * scale[1], scale[2]) + 2 * padding
                /\ padding <= p[2] /\ p[2] < Floor(config.width * scale[1], scale[2]) + 2 * padding
                /\ p[1] \in 0 .. Cols - 1 /\ p[2] \in 0 .. Rows - 1
       /\ padding = 0 =>
             \A p \in PointsUsed :
                /\ 0 <= p[1] /\ p[1] <= Cols
                /\ 0 <= p[2] /\ p[2] <= Rows
       /\ (padding = 0 /\ Done) =>
             /\ LineCalls[3].pt1[1] = Cols /\ LineCalls[3].pt2[1] = Cols
             /\ LineCalls[4].pt1[2] = Rows /\ LineCalls[4].pt2[2] = Rows

C9_Witness ==
    /\ Done
    /\ padding >= 1
    /\ config.attack_line_distance >= 1
    /\ 2 * config.attack_line_distance <= config.length
    /\ \E p \in PointsUsed : p[1] = Cols - padding /\ p[2] = Rows - padding
    /\ Rows > 2 * padding

\* The pairs of consecutive indices met walking a cyclic index list.
CyclicPairs(idx) == [i \in 1 .. Len(idx) |-> <<idx[i], idx[(i % Len(idx)) + 1]>>]

\* C10: walking boundary_vertices_indices cyclically yields the four
\* court-boundary edges (1,2), (2,10), (10,9), (9,1) of edges; the four
\* vertices are the corners (0,width), (0,0), (length,0), (length,width) of
\* an axis-aligned rectangle, and what the fill colours is exactly that
\* rectangle, scaled and padded.
C10_BoundaryIsOutline ==
    /\ CyclicPairs(boundary_vertices_indices) = SubSeq(edges, 1, 4)
    /\ CyclicPairs(boundary_vertices_indices) =
          << <<1, 2>>, <<2, 10>>, <<10, 9>>, <<9, 1>> >>
    /\ SameVertices([i \in 1 .. 4 |-> vertices(config)[boundary_vertices_indices[i]]],
          << <<<<0, 1>>, <<config.width, 1>>>>, <<<<0, 1>>, <<0, 1>>>>,
             <<<<config.length, 1>>, <<0, 1>>>>,
             <<<<config.length, 1>>, <<config.width, 1>>>> >>)
    /\ \A i \in 1 .. Len(court_boundaries) :
          LET a == court_boundaries[i]
              b == Succ(court_boundaries, i)
          IN  (a[1] = b[1]) \/ (a[2] = b[2])
    /\ (pc = "edges" /\ k = 0) =>
          \A y \in DOMAIN court_image : \A x \in DOMAIN court_image[y] :
             (court_image[y][x] = as_bgr(inside_color)) <=>
                ~StrictlyOutside(x, y)

C10_Witness ==
    /\ pc = "edges" /\ k = 0
    /\ config.width > 0 /\ config.length > 0
    /\ PolyRight > PolyLeft + 1 /\ PolyBottom > PolyTop + 1
    /\ \E y \in DOMAIN court_image : \E x \in DOMAIN court_image[y] :
          StrictlyInside(x, y) /\ court_image[y][x] = as_bgr(inside_color)
    /\ \E y \in DOMAIN court_image : \E x \in DOMAIN court_image[y] :
          StrictlyOutside(x, y) /\ court_image[y][x] = as_bgr(outside_color)

\* C7: draw_points_on_court called with an empty point sequence and no
\* pre-rendered image returns the image draw_volleyball_court returns for
\* the same configuration, padding and scale.
C7_NoPointsIsCourt ==
    (pc = "points_done" /\ Len(xy) = 0 /\ result # NoImage) =>
       /\ annotated = DrawCourt(config, scale, padding, 1)
       /\ annotated = result

C7_Witness ==
    /\ pc = "points_done" /\ Len(xy) = 0 /\ result # NoImage
    /\ config.width > 0 /\ config.length > 0 /\ padding > 0
    /\ \E y \in DOMAIN annotated.pixels : \E x \in DOMAIN annotated.pixels[y] :
          annotated.pixels[y][x] = as_bgr(inside_color)

====
